---- MODULE Spec2Model ----
(***************************************************************************)
(* Model of src/src/main.c: tagged Values with ownership, the pull-based   *)
(* ValueStreamRange, the Reducer interface and the Filtering / Mapping /   *)
(* Composing transducers, with the drivers reduceStream and                *)
(* transduceFloatArray.                                                    *)
(*                                                                         *)
(* Floats are modelled by small integers (on which float addition is       *)
(* exact).  Addresses are records [region, off] with byte offsets.  The    *)
(* text printed by printReducerApply is not part of the state.             *)
(***************************************************************************)
EXTENDS Integers, Sequences, FiniteSets, TLC

VARIABLES values, range, element, mem, frees, reducers, transducers, log,
          aborted, pc, process, stepKind, step, reducer, result,
          reducer2, result2, step2, aborted2, i, a, b, freedValue

vars == <<values, range, element, mem, frees, reducers, transducers, log,
          aborted, pc, process, stepKind, step, reducer, result,
          reducer2, result2, step2, aborted2, i, a, b, freedValue>>

----------------------------------------------------------------------------
(* Bounds of the model *)

MaxCount == 2          \* longest float array
MaxFloat == 1          \* floats range over -MaxFloat .. MaxFloat
MaxTransducers == 2    \* longest array given to composingTransducer

Floats == (0 - MaxFloat) .. MaxFloat

RECURSIVE SeqsUpTo(_, _)
SeqsUpTo(S, n) ==
    IF n = 0 THEN {<<>>}
    ELSE LET shorter == SeqsUpTo(S, n - 1)
         IN  shorter \cup {Append(s, x) : s \in {t \in shorter : Len(t) = n - 1}, x \in S}

FloatArrays == SeqsUpTo(Floats, MaxCount)

----------------------------------------------------------------------------
(* Program constants *)

TTAG_NULL == 0
TTAG_FLOAT == 1
SizeofFloat == 4
ZerosSize == 256

S_NoError == "S_NoError"
S_ReadPastEnd == "S_ReadPastEnd"

NULL == [region |-> "null", off |-> 0]
NoAllocator == "NULL"
heapAllocator == "heapAllocator"

----------------------------------------------------------------------------
(* struct Value *)

nullValue ==
    [type_tag |-> TTAG_NULL, element_size |-> 0, address |-> NULL,
     allocator |-> NoAllocator]

(* the function-local `static struct Value zero` of nextValueVSR *)
staticZeroValue ==
    [type_tag |-> 0, element_size |-> 0, address |-> NULL,
     allocator |-> NoAllocator]

(* The machine state threaded through a call: heap cells, free requests,   *)
(* reducer objects, call log, abort flag.                                  *)
MkSt(m, f, r, l, ab) ==
    [mem |-> m, frees |-> f, reducers |-> r, log |-> l, aborted |-> ab]

(* stdlib_alloc: a fresh heap cell *)
stdlib_alloc(st) ==
    [st |-> [st EXCEPT !.mem = Append(@, [val |-> 0, live |-> TRUE])],
     ptr |-> [region |-> "heap", off |-> Len(st.mem) + 1]]

(* stdlib_free: free(ptr); the request is recorded, a heap cell dies *)
stdlib_free(st, ptr) ==
    [st EXCEPT !.frees = Append(@, [allocator |-> heapAllocator, address |-> ptr]),
               !.mem = IF ptr.region = "heap" /\ ptr.off \in 1..Len(@)
                       THEN [@ EXCEPT ![ptr.off].live = FALSE]
                       ELSE @]

(* allocator.h is not part of the sources: dispatch through the allocator  *)
allocator_alloc(st, allocator) == stdlib_alloc(st)

(* allocator.h is not part of the sources: release through the recorded    *)
(* allocator; a Value without allocator is released by nobody.             *)
allocator_free(st, allocator, ptr) ==
    IF allocator = NoAllocator THEN st ELSE stdlib_free(st, ptr)

(* freeValue that releases through the heap allocator whatever the Value records *)
freeValue_alwaysHeap(st, value) ==
    [st |-> allocator_free(st, heapAllocator, value.address),
     value |-> [value EXCEPT !.address = NULL, !.allocator = NoAllocator]]

freeValue(st, value) ==
    [st |-> allocator_free(st, value.allocator, value.address),
     value |-> [value EXCEPT !.address = NULL, !.allocator = NoAllocator]]

floatValue(st, f, allocator) ==
    LET al == allocator_alloc(st, allocator)
    IN  [st |-> [al.st EXCEPT !.mem[al.ptr.off].val = f],
         result |-> [type_tag |-> TTAG_FLOAT, element_size |-> SizeofFloat,
                     address |-> al.ptr, allocator |-> NoAllocator]]

\* the float a Value's address points at
Deref(st, address) ==
    CASE address.region = "buf" -> values[(address.off \div SizeofFloat) + 1]
      [] address.region = "heap" -> st.mem[address.off].val
      [] address.region = "static_zero" -> 0
      [] address.region = "zeros" -> 0

----------------------------------------------------------------------------
(* struct ValueStreamRange *)

zerosVSRNext(rg) ==
    [rg EXCEPT !.type_tag = 0,
               !.element_size = 1,
               !.start = [region |-> "zeros", off |-> 0],
               !.cursor = [region |-> "zeros", off |-> 0],
               !.end = [region |-> "zeros", off |-> ZerosSize]]

RECURSIVE RangeNext(_)

(* failVSR that installs the zero segment but forgets the error code *)
failVSR_noLatch(rg, error) ==
    RangeNext([rg EXCEPT !.next = "zerosVSRNext"])

failVSR(rg, error) ==
    RangeNext([rg EXCEPT !.error = error, !.next = "zerosVSRNext"])

floatArrayNext(rg) == failVSR(rg, S_ReadPastEnd)

(* range->next(range) *)
RangeNext(rg) ==
    CASE rg.next = "floatArrayNext" -> floatArrayNext(rg)
      [] rg.next = "zerosVSRNext" -> zerosVSRNext(rg)

floatArrayVSR(vals, count) ==
    [type_tag |-> TTAG_FLOAT,
     element_size |-> SizeofFloat,
     start |-> [region |-> "buf", off |-> 0],
     cursor |-> [region |-> "buf", off |-> 0],
     end |-> [region |-> "buf", off |-> count * SizeofFloat],
     error |-> S_NoError,
     next |-> "floatArrayNext"]

RECURSIVE nextValueVSR(_)

(* nextValueVSR comparing one element too far: the last element is lost *)
nextValueVSR_dropLast(rg) ==
    IF rg.error = S_NoError
    THEN IF rg.cursor.off + rg.element_size < rg.end.off
         THEN [range |-> [rg EXCEPT !.cursor.off = @ + rg.element_size],
               result |-> [type_tag |-> rg.type_tag,
                           element_size |-> rg.element_size,
                           address |-> rg.cursor,
                           allocator |-> NoAllocator]]
         ELSE nextValueVSR(RangeNext(rg))
    ELSE [range |-> rg, result |-> staticZeroValue]

nextValueVSR(rg) ==
    IF rg.error = S_NoError
    THEN IF rg.cursor.off < rg.end.off
         THEN [range |-> [rg EXCEPT !.cursor.off = @ + rg.element_size],
               result |-> [type_tag |-> rg.type_tag,
                           element_size |-> rg.element_size,
                           address |-> rg.cursor,
                           allocator |-> NoAllocator]]
         ELSE nextValueVSR(RangeNext(rg))
    ELSE [range |-> rg, result |-> staticZeroValue]

----------------------------------------------------------------------------
(* struct Reducer and the concrete reducers.  A reducer object is a record *)
(* of the heap `reducers`; a pointer to it is its index.  Every call made  *)
(* through reducer_zero / reducer_apply is entered in the log when it is   *)
(* made, and completed with its result when it returns.                    *)

RObj(kind, stp, predicate, red, reducerResult, reds, redsResult, count) ==
    [kind |-> kind, step |-> stp, predicate |-> predicate, reducer |-> red,
     reducerResult |-> reducerResult, reducers |-> reds,
     reducersResult |-> redsResult, reducersCount |-> count]

BaseReducer(kind) == RObj(kind, 0, {}, 0, nullValue, <<>>, <<>>, 0)

Call(st, op, r, input, current) ==
    [st EXCEPT !.log = Append(@, [op |-> op, reducer |-> r, input |-> input,
                                  current |-> current, result |-> nullValue,
                                  returned |-> FALSE])]

Return(st, k, res) ==
    IF st.aborted
    THEN [st |-> st, result |-> nullValue]
    ELSE [st |-> [st EXCEPT !.log[k].result = res, !.log[k].returned = TRUE],
          result |-> res]

RECURSIVE reducer_zero(_, _, _)
RECURSIVE reducer_apply(_, _, _, _, _)

idReducerZero(st, self, allocator) == [st |-> st, result |-> nullValue]

idReducerApply(st, self, input, current, allocator) ==
    [st |-> st, result |-> input]

(* a failed assert aborts the program *)
accumulateFloat(st, input, current, allocator) ==
    IF input.type_tag # TTAG_FLOAT \/ current.type_tag # TTAG_FLOAT
    THEN [st |-> [st EXCEPT !.aborted = TRUE], result |-> nullValue]
    ELSE floatValue(st, Deref(st, input.address) + Deref(st, current.address),
                    allocator)

accumulateFloatZero(st, self, allocator) ==
    [st |-> st,
     result |-> [type_tag |-> TTAG_FLOAT, element_size |-> SizeofFloat,
                 address |-> [region |-> "static_zero", off |-> 0],
                 allocator |-> NoAllocator]]

accumulateFloatApply(st, self, input, current, allocator) ==
    accumulateFloat(st, input, current, allocator)

printReducerZero(st, self, allocator) == [st |-> st, result |-> nullValue]

printReducerApply(st, self, input, current, allocator) ==
    [st |-> st, result |-> input]

(* self->predicate(input); a predicate is the set of floats it accepts *)
positiveFloatsOnly == {f \in Floats : f > 0}

CallPredicate(st, predicate, value) ==
    value.type_tag = TTAG_FLOAT /\ Deref(st, value.address) \in predicate

filteringReducerZero(st, self, allocator) == [st |-> st, result |-> nullValue]

(* a filter that lets every element through *)
filteringReducerApply_noGate(st, self, input, current, allocator) ==
    reducer_apply(st, st.reducers[self].step, input, current, allocator)

filteringReducerApply(st, self, input, current, allocator) ==
    IF CallPredicate(st, st.reducers[self].predicate, input)
    THEN reducer_apply(st, st.reducers[self].step, input, current, allocator)
    ELSE [st |-> st, result |-> current]

composingReducerZero(st, self, allocator) == [st |-> st, result |-> nullValue]

(* a composing reducer that enters its chain at the last reducer *)
composingReducerApply_last(st, self, input, current, allocator) ==
    reducer_apply(st, st.reducers[self].reducers[st.reducers[self].reducersCount],
                  input, current, allocator)

composingReducerApply(st, self, input, current, allocator) ==
    reducer_apply(st, st.reducers[self].reducers[1], input, current, allocator)

mappingReducerZero(st, self, allocator) ==
    reducer_zero(st, st.reducers[self].step, allocator)

(* a mapping that forwards the raw element instead of the running result *)
mappingReducerApply_rawInput(st, self, input, current, allocator) ==
    LET inner == reducer_apply(st, st.reducers[self].reducer, input,
                               st.reducers[self].reducerResult, allocator)
        st1 == [inner.st EXCEPT !.reducers[self].reducerResult = inner.result]
    IN  IF inner.st.aborted THEN inner
        ELSE reducer_apply(st1, st1.reducers[self].step, input, current, allocator)

mappingReducerApply(st, self, input, current, allocator) ==
    LET inner == reducer_apply(st, st.reducers[self].reducer, input,
                               st.reducers[self].reducerResult, allocator)
        st1 == [inner.st EXCEPT !.reducers[self].reducerResult = inner.result]
    IN  IF inner.st.aborted THEN inner
        ELSE reducer_apply(st1, st1.reducers[self].step,
                           st1.reducers[self].reducerResult, current, allocator)

(* reducer->zero(reducer, allocator) *)
reducer_zero(st, r, allocator) ==
    LET st0 == Call(st, "zero", r, nullValue, nullValue)
        k == Len(st0.log)
        kind == st.reducers[r].kind
        ret == CASE kind = "id" -> idReducerZero(st0, r, allocator)
                 [] kind = "print" -> printReducerZero(st0, r, allocator)
                 [] kind = "accumulateFloat" -> accumulateFloatZero(st0, r, allocator)
                 [] kind = "filtering" -> filteringReducerZero(st0, r, allocator)
                 [] kind = "composing" -> composingReducerZero(st0, r, allocator)
                 [] kind = "mapping" -> mappingReducerZero(st0, r, allocator)
    IN  Return(ret.st, k, ret.result)

(* reducer->apply(reducer, input, current, allocator) *)
reducer_apply(st, r, input, current, allocator) ==
    LET st0 == Call(st, "apply", r, input, current)
        k == Len(st0.log)
        kind == st.reducers[r].kind
        ret == CASE kind = "id" -> idReducerApply(st0, r, input, current, allocator)
                 [] kind = "print" -> printReducerApply(st0, r, input, current, allocator)
                 [] kind = "accumulateFloat" ->
                        accumulateFloatApply(st0, r, input, current, allocator)
                 [] kind = "filtering" ->
                        filteringReducerApply(st0, r, input, current, allocator)
                 [] kind = "composing" ->
                        composingReducerApply(st0, r, input, current, allocator)
                 [] kind = "mapping" ->
                        mappingReducerApply(st0, r, input, current, allocator)
    IN  Return(ret.st, k, ret.result)

(* idReducer / printReducer / a `struct Reducer accumulator` on the stack *)
NewReducer(st, kind) ==
    [st |-> [st EXCEPT !.reducers = Append(@, BaseReducer(kind))],
     result |-> Len(st.reducers) + 1]

idReducer(st, allocator) == NewReducer(st, "id")

printReducer(st, allocator) == NewReducer(st, "print")

----------------------------------------------------------------------------
(* struct Transducer and the concrete transducers.  A transducer object is *)
(* a record of the heap `transducers`; a pointer to it is its index.       *)

TObj(kind, predicate, red, ts, count) ==
    [kind |-> kind, predicate |-> predicate, reducer |-> red,
     transducers |-> ts, transducersCount |-> count]

filteringTransducer(predicate) == TObj("filtering", predicate, 0, <<>>, 0)

mappingTransducer(red) == TObj("mapping", {}, red, <<>>, 0)

composingTransducer(ts, transducerCount) ==
    TObj("composing", {}, 0, ts, transducerCount)

RECURSIVE transducer_apply(_, _, _, _)

filteringTransducerApply(st, t, stp, allocator) ==
    [st |-> [st EXCEPT !.reducers =
                Append(@, RObj("filtering", stp, transducers[t].predicate,
                               0, nullValue, <<>>, <<>>, 0))],
     result |-> Len(st.reducers) + 1]

(* a mapping transducer keeping the running result itself: a new reducer   *)
(* goes on from where the last one it produced has got to                  *)
mappingTransducerApply_shared(st, t, stp, allocator) ==
    LET z == reducer_zero(st, transducers[t].reducer, allocator)
        old == {r \in 1..Len(st.reducers) :
                   /\ st.reducers[r].kind = "mapping"
                   /\ st.reducers[r].reducer = transducers[t].reducer}
        last == CHOOSE r \in old : \A q \in old : q <= r
        start == IF old = {} THEN z.result ELSE st.reducers[last].reducerResult
    IN  [st |-> [z.st EXCEPT !.reducers =
                    Append(@, RObj("mapping", stp, {}, transducers[t].reducer,
                                   start, <<>>, <<>>, 0))],
         result |-> Len(z.st.reducers) + 1]

mappingTransducerApply(st, t, stp, allocator) ==
    LET z == reducer_zero(st, transducers[t].reducer, allocator)
    IN  [st |-> [z.st EXCEPT !.reducers =
                    Append(@, RObj("mapping", stp, {}, transducers[t].reducer,
                                   z.result, <<>>, <<>>, 0))],
         result |-> Len(z.st.reducers) + 1]

RECURSIVE composingTransducerApplyLoop(_, _, _, _, _, _)

(* the loop filling the chain front to back *)
composingTransducerApplyLoop_forward(st, t, res, j, x, allocator) ==
    IF j < transducers[t].transducersCount
    THEN LET idx == j
             ta == transducer_apply(st, transducers[t].transducers[idx + 1], x, allocator)
             st1 == [ta.st EXCEPT !.reducers[res].reducers[idx + 1] = ta.result]
             z == reducer_zero(st1, ta.result, allocator)
             st2 == [z.st EXCEPT !.reducers[res].reducersResult[idx + 1] = z.result]
         IN  composingTransducerApplyLoop(st2, t, res, j + 1, ta.result, allocator)
    ELSE st

(* for (size_t i = 0; i < self->transducersCount; i++) ... *)
composingTransducerApplyLoop(st, t, res, j, x, allocator) ==
    IF j < transducers[t].transducersCount
    THEN LET idx == transducers[t].transducersCount - 1 - j
             ta == transducer_apply(st, transducers[t].transducers[idx + 1], x, allocator)
             st1 == [ta.st EXCEPT !.reducers[res].reducers[idx + 1] = ta.result]
             z == reducer_zero(st1, ta.result, allocator)
             st2 == [z.st EXCEPT !.reducers[res].reducersResult[idx + 1] = z.result]
         IN  composingTransducerApplyLoop(st2, t, res, j + 1, ta.result, allocator)
    ELSE st

composingTransducerApply(st, t, stp, allocator) ==
    LET n == transducers[t].transducersCount
        res == Len(st.reducers) + 1
        st0 == [st EXCEPT !.reducers =
                   Append(@, RObj("composing", 0, {}, 0, nullValue,
                                  [j \in 1..n |-> 0], [j \in 1..n |-> nullValue], n))]
    IN  [st |-> composingTransducerApplyLoop(st0, t, res, 0, stp, allocator),
         result |-> res]

(* transducer->apply(transducer, step, allocator) *)
transducer_apply(st, t, stp, allocator) ==
    CASE transducers[t].kind = "filtering" -> filteringTransducerApply(st, t, stp, allocator)
      [] transducers[t].kind = "mapping" -> mappingTransducerApply(st, t, stp, allocator)
      [] transducers[t].kind = "composing" -> composingTransducerApply(st, t, stp, allocator)

----------------------------------------------------------------------------
(* Values in use: a stream over a float array is pulled, and the Values    *)
(* handed out (stream elements, the static zero of accumulateFloatZero,    *)
(* the sentinel) are given to freeValue.                                   *)

St == MkSt(mem, frees, reducers, log, aborted)

NoRange ==
    [type_tag |-> 0, element_size |-> 0, start |-> NULL, cursor |-> NULL,
     end |-> NULL, error |-> S_NoError, next |-> "none"]

InitCommon ==
    /\ mem = <<>>
    /\ frees = <<>>
    /\ log = <<>>
    /\ aborted = FALSE
    /\ element = nullValue
    /\ result = nullValue
    /\ result2 = nullValue
    /\ a = nullValue
    /\ b = nullValue
    /\ reducer = 0
    /\ reducer2 = 0
    /\ step = 0
    /\ step2 = 0
    /\ aborted2 = FALSE
    /\ i = 0
    /\ freedValue = nullValue

InitStream ==
    /\ InitCommon
    /\ values \in FloatArrays
    /\ range = floatArrayVSR(values, Len(values))
    /\ reducers = <<BaseReducer("accumulateFloat")>>
    /\ transducers = <<>>
    /\ process = 0
    /\ stepKind = "none"
    /\ pc = "stream"

PullNext ==
    /\ pc \in {"stream", "pulled", "pulled_past_end", "zero", "freed"}
    /\ LET nv == nextValueVSR(range)
       IN  /\ range' = nv.range
           /\ element' = nv.result
    /\ pc' = IF range.error # S_NoError THEN "pulled_past_end" ELSE "pulled"
    /\ UNCHANGED <<values, mem, frees, reducers, transducers, log, aborted,
                   process, stepKind, step, reducer, result, reducer2, result2,
                   step2, aborted2, i, a, b, freedValue>>

TakeZero ==
    /\ pc \in {"stream", "pulled", "pulled_past_end", "freed"}
    /\ element' = accumulateFloatZero(St, 1, heapAllocator).result
    /\ pc' = "zero"
    /\ UNCHANGED <<values, range, mem, frees, reducers, transducers, log,
                   aborted, process, stepKind, step, reducer, result, reducer2,
                   result2, step2, aborted2, i, a, b, freedValue>>

FreeElement ==
    /\ pc \in {"stream", "pulled", "pulled_past_end", "zero"}
    /\ LET fv == freeValue(St, element)
       IN  /\ element' = fv.value
           /\ mem' = fv.st.mem
           /\ frees' = fv.st.frees
    /\ freedValue' = element
    /\ pc' = "freed"
    /\ UNCHANGED <<values, range, reducers, transducers, log, aborted,
                   process, stepKind, step, reducer, result, reducer2, result2,
                   step2, aborted2, i, a, b>>

NextStream == PullNext \/ TakeZero \/ FreeElement

SpecStream == InitStream /\ [][NextStream]_vars

(* C1: once range.error differs from S_NoError (S_ReadPastEnd, set at     *)
(* exhaustion) it keeps its value, every pull made while it is set returns *)
(* the Null sentinel without address and leaves the cursor where it is,    *)
(* and no pull ever hands out an address outside the float array.          *)
InBuffer(address) ==
    /\ address.region = "buf"
    /\ address.off \in 0..(Len(values) * SizeofFloat - 1)
    /\ address.off % SizeofFloat = 0

C1_ErrorLatched ==
    [][/\ range.error # S_NoError =>
            /\ range'.error = range.error
            /\ range'.cursor = range.cursor
            /\ pc' = "pulled_past_end" =>
                   /\ element'.type_tag = TTAG_NULL
                   /\ element'.address = NULL
       /\ range'.error \in {S_NoError, S_ReadPastEnd}
       /\ range'.error = S_NoError => range'.cursor.off <= range'.end.off
       /\ pc' \in {"pulled", "pulled_past_end"} =>
            \/ element'.address = NULL /\ range'.error = S_ReadPastEnd
            \/ InBuffer(element'.address) /\ range'.error = S_NoError]_vars

C1_Witness ==
    /\ pc = "pulled_past_end"
    /\ Len(values) > 0
    /\ range.error = S_ReadPastEnd
    /\ element = staticZeroValue

(* C7: freeValue on a borrowed Value (a stream element, the static zero of *)
(* accumulateFloatZero) or on a Null Value issues no free request and      *)
(* leaves the memory as it is.                                             *)
C7_BorrowedFreeIsNoOp ==
    pc = "freed" =>
        /\ frees = <<>>
        /\ mem = <<>>
        /\ element.address = NULL

C7_Witness ==
    /\ pc = "freed"
    /\ freedValue.type_tag = TTAG_FLOAT
    /\ freedValue.address.region = "buf"
    /\ freedValue.allocator = NoAllocator

----------------------------------------------------------------------------
(* The individual test of main: two Values made by floatValue, their sum   *)
(* made by accumulateFloat, and the three given to freeValue, in any order *)
(* that uses no Value before it is made or after it is released.           *)

InitValue ==
    /\ InitCommon
    /\ values = <<>>
    /\ range = NoRange
    /\ reducers = <<>>
    /\ transducers = <<>>
    /\ process = 0
    /\ stepKind = "none"
    /\ pc = "start"

UnchangedValue ==
    UNCHANGED <<values, range, element, reducers, transducers, log, process,
                stepKind, step, reducer, reducer2, result2, step2, aborted2, i>>

FloatValueA(f) ==
    /\ a = nullValue
    /\ LET fv == floatValue(St, f, heapAllocator)
       IN  /\ a' = fv.result
           /\ mem' = fv.st.mem
    /\ pc' = "made"
    /\ UNCHANGED <<frees, aborted, b, result, freedValue>>
    /\ UnchangedValue

FloatValueB(f) ==
    /\ b = nullValue
    /\ LET fv == floatValue(St, f, heapAllocator)
       IN  /\ b' = fv.result
           /\ mem' = fv.st.mem
    /\ pc' = "made"
    /\ UNCHANGED <<frees, aborted, a, result, freedValue>>
    /\ UnchangedValue

AccumulateAB ==
    /\ a.address # NULL
    /\ b.address # NULL
    /\ result = nullValue
    /\ LET acc == accumulateFloat(St, a, b, heapAllocator)
       IN  /\ result' = acc.result
           /\ mem' = acc.st.mem
           /\ aborted' = acc.st.aborted
    /\ pc' = "made"
    /\ UNCHANGED <<frees, a, b, freedValue>>
    /\ UnchangedValue

FreeA ==
    /\ a.address # NULL
    /\ LET fv == freeValue(St, a)
       IN  /\ a' = fv.value
           /\ mem' = fv.st.mem
           /\ frees' = fv.st.frees
    /\ freedValue' = a
    /\ pc' = "freed"
    /\ UNCHANGED <<aborted, b, result>>
    /\ UnchangedValue

FreeB ==
    /\ b.address # NULL
    /\ LET fv == freeValue(St, b)
       IN  /\ b' = fv.value
           /\ mem' = fv.st.mem
           /\ frees' = fv.st.frees
    /\ freedValue' = b
    /\ pc' = "freed"
    /\ UNCHANGED <<aborted, a, result>>
    /\ UnchangedValue

FreeResult ==
    /\ result.address # NULL
    /\ LET fv == freeValue(St, result)
       IN  /\ result' = fv.value
           /\ mem' = fv.st.mem
           /\ frees' = fv.st.frees
    /\ freedValue' = result
    /\ pc' = "freed"
    /\ UNCHANGED <<aborted, a, b>>
    /\ UnchangedValue

NextValue ==
    \/ \E f \in Floats : FloatValueA(f)
    \/ \E f \in Floats : FloatValueB(f)
    \/ AccumulateAB
    \/ FreeA
    \/ FreeB
    \/ FreeResult

SpecValue == InitValue /\ [][NextValue]_vars

(* C6: a Value returned by floatValue is tagged Float, has its payload     *)
(* from the allocator and records that allocator; freeValue issues exactly *)
(* one free of the payload to the recorded allocator and clears address    *)
(* and allocator; a Value has an allocator exactly when its address is     *)
(* owned (a live heap cell).                                               *)
Owned(value) ==
    /\ value.address.region = "heap"
    /\ value.address.off \in 1..Len(mem)
    /\ mem[value.address.off].live

C6_FloatValueOwned ==
    /\ \A v \in {a, b, result} :
          (v.type_tag = TTAG_FLOAT /\ v.address # NULL) =>
              /\ v.address.region = "heap"
              /\ v.allocator = heapAllocator
    /\ pc = "freed" =>
          /\ frees # <<>>
          /\ frees[Len(frees)] =
                [allocator |-> heapAllocator, address |-> freedValue.address]
    /\ \A v \in {a, b, result} :
          v.type_tag = TTAG_FLOAT =>
              /\ v.address = NULL => v.allocator = NoAllocator
              /\ (v.allocator # NoAllocator) <=> Owned(v)

----------------------------------------------------------------------------
(* The stream and transducer scenarios of main: a reducer is taken as it   *)
(* is or produced by applying a transducer to a terminal step, a stream    *)
(* over the float array is reduced with it by reduceStream, and the array  *)
(* is then transduced again by transduceFloatArray.                        *)

nonZeroFloats == {f \in Floats : f # 0}

Predicates == {positiveFloatsOnly, nonZeroFloats}

(* the reducers a mapping transducer is given: main's `accumulator` and an *)
(* identity reducer, at the addresses 1 and 2 of the heap                  *)
accumulator == 1
InnerReducers == {accumulator, 2}

StepKinds == {"id", "print", "accumulateFloat"}

Leaves ==
    {filteringTransducer(p) : p \in Predicates}
        \cup {mappingTransducer(r) : r \in InnerReducers}

TransducerArrays == SeqsUpTo(Leaves, MaxTransducers) \ {<<>>}

(* the transducer heaps: none, one transducer, or an array of transducers  *)
(* followed by the composing transducer over it                            *)
Processes ==
    {<<>>} \cup {<<t>> : t \in Leaves}
           \cup {Append(ts, composingTransducer([j \in 1..Len(ts) |-> j], Len(ts))) :
                    ts \in TransducerArrays}

InitPipeline ==
    /\ InitCommon
    /\ values \in FloatArrays
    /\ range = NoRange
    /\ reducers = <<BaseReducer("accumulateFloat"), BaseReducer("id")>>
    /\ transducers \in Processes
    /\ process = Len(transducers)
    /\ stepKind \in StepKinds
    /\ pc = "start"

UnchangedPipeline ==
    UNCHANGED <<values, transducers, process, stepKind, step2, aborted2,
                frees, a, b, freedValue>>

(* the terminal reducer: idReducer(), printReducer() or an accumulator *)
TerminalReducer(st, kind) == NewReducer(st, kind)

(* main: reduceStream(&valuesRange, &accumulator / printReducer(), ...) *)
PlainReducer ==
    /\ pc = "start"
    /\ process = 0
    /\ LET s == TerminalReducer(St, stepKind)
       IN  /\ step' = s.result
           /\ reducer' = s.result
           /\ reducers' = s.st.reducers
    /\ pc' = "stream"
    /\ UNCHANGED <<range, element, mem, log, aborted, result, reducer2, result2, i>>
    /\ UnchangedPipeline

(* main: reducer = transducer_apply(process, printReducer(), ...) *)
MakeReducer ==
    /\ pc = "start"
    /\ process # 0
    /\ LET s == TerminalReducer(St, stepKind)
           ta == transducer_apply(s.st, process, s.result, heapAllocator)
       IN  /\ step' = s.result
           /\ reducer' = ta.result
           /\ reducers' = ta.st.reducers
           /\ mem' = ta.st.mem
           /\ log' = ta.st.log
    /\ pc' = "stream"
    /\ UNCHANGED <<range, element, aborted, result, reducer2, result2, i>>
    /\ UnchangedPipeline

FloatArrayVSR ==
    /\ pc = "stream"
    /\ range' = floatArrayVSR(values, Len(values))
    /\ pc' = "zero"
    /\ UNCHANGED <<element, mem, reducers, log, aborted, step, reducer, result,
                   reducer2, result2, i>>
    /\ UnchangedPipeline

(* reduceStream: result = reducer_zero(reducer, allocator) *)
ReduceStreamZero ==
    /\ pc = "zero"
    /\ LET z == reducer_zero(St, reducer, heapAllocator)
       IN  /\ result' = z.result
           /\ reducers' = z.st.reducers
           /\ mem' = z.st.mem
           /\ log' = z.st.log
    /\ pc' = "loop"
    /\ UNCHANGED <<range, element, aborted, step, reducer, reducer2, result2, i>>
    /\ UnchangedPipeline

(* reduceStream: one turn of the while loop, or the return *)
ReduceStreamLoop ==
    /\ pc = "loop"
    /\ LET nv == nextValueVSR(range)
           ap == reducer_apply(St, reducer, nv.result, result, heapAllocator)
       IN  /\ range' = nv.range
           /\ element' = nv.result
           /\ IF nv.range.error = S_NoError
              THEN /\ result' = ap.result
                   /\ reducers' = ap.st.reducers
                   /\ mem' = ap.st.mem
                   /\ log' = ap.st.log
                   /\ aborted' = ap.st.aborted
                   /\ pc' = IF ap.st.aborted THEN "aborted" ELSE "loop"
              ELSE /\ pc' = "reduced"
                   /\ UNCHANGED <<result, reducers, mem, log, aborted>>
    /\ UNCHANGED <<step, reducer, reducer2, result2, i>>
    /\ UnchangedPipeline

(* transduceFloatArray: the reducer over idReducer() and its zero *)
TransduceFloatArrayStart ==
    /\ pc = "reduced"
    /\ process # 0
    /\ LET s == idReducer(St, heapAllocator)
           ta == transducer_apply(s.st, process, s.result, heapAllocator)
           z == reducer_zero(ta.st, ta.result, heapAllocator)
       IN  /\ reducer2' = ta.result
           /\ result2' = z.result
           /\ reducers' = z.st.reducers
           /\ mem' = z.st.mem
           /\ log' = z.st.log
    /\ i' = 0
    /\ pc' = "transduce"
    /\ UNCHANGED <<range, element, aborted, step, reducer, result>>
    /\ UnchangedPipeline

(* transduceFloatArray: one turn of the for loop, or the return *)
TransduceFloatArrayLoop ==
    /\ pc = "transduce"
    /\ IF i < Len(values)
       THEN LET value == [type_tag |-> TTAG_FLOAT, element_size |-> SizeofFloat,
                          address |-> [region |-> "buf", off |-> i * SizeofFloat],
                          allocator |-> NoAllocator]
                ap == reducer_apply(St, reducer2, value, result2, heapAllocator)
            IN  /\ result2' = ap.result
                /\ reducers' = ap.st.reducers
                /\ mem' = ap.st.mem
                /\ log' = ap.st.log
                /\ aborted' = ap.st.aborted
                /\ i' = i + 1
                /\ pc' = IF ap.st.aborted THEN "aborted" ELSE "transduce"
       ELSE /\ pc' = "done"
            /\ UNCHANGED <<result2, reducers, mem, log, aborted, i>>
    /\ UNCHANGED <<range, element, step, reducer, result, reducer2>>
    /\ UnchangedPipeline

NextPipeline ==
    \/ PlainReducer
    \/ MakeReducer
    \/ FloatArrayVSR
    \/ ReduceStreamZero
    \/ ReduceStreamLoop
    \/ TransduceFloatArrayStart
    \/ TransduceFloatArrayLoop

SpecPipeline == InitPipeline /\ [][NextPipeline]_vars

(* Reading the call log *)
Applies(r) ==
    LET Test(e) == e.reducer = r /\ e.op = "apply"
    IN  SelectSeq(log, Test)

Zeros(r) ==
    LET Test(e) == e.reducer = r /\ e.op = "zero"
    IN  SelectSeq(log, Test)

FloatOf(v) == Deref(St, v.address)

(* what a Value says, whatever memory holds it *)
View(v) ==
    [type_tag |-> v.type_tag,
     val |-> IF v.type_tag = TTAG_FLOAT /\ v.address # NULL THEN FloatOf(v) ELSE 0]

BufferValue(k) ==
    [type_tag |-> TTAG_FLOAT, element_size |-> SizeofFloat,
     address |-> [region |-> "buf", off |-> (k - 1) * SizeofFloat],
     allocator |-> NoAllocator]

RECURSIVE SumSeq(_)
SumSeq(s) == IF s = <<>> THEN 0 ELSE s[1] + SumSeq(Tail(s))

RECURSIVE SumInputs(_, _)
SumInputs(entries, k) ==
    IF k = 0 THEN 0 ELSE FloatOf(entries[k].input) + SumInputs(entries, k - 1)

Positive(f) == f > 0

(* C2: reduceStream over a stream of n elements calls reducer.zero once,   *)
(* then reducer.apply n times, once per element in buffer order, threading *)
(* the accumulator; it returns the last accumulator (zero's value when     *)
(* n = 0) and ends with range.error = S_ReadPastEnd; with the running-sum  *)
(* reducer the result is the sum of the elements.                          *)
C2_ReduceStream ==
    pc \in {"reduced", "transduce", "done"} =>
        LET n == Len(values)
            ap == Applies(reducer)
            zs == Zeros(reducer)
            firstApply == {k \in 1..Len(log) :
                              log[k].reducer = reducer /\ log[k].op = "apply"}
            theZero == {k \in 1..Len(log) :
                              log[k].reducer = reducer /\ log[k].op = "zero"}
        IN  /\ Len(zs) = 1
            /\ \A z \in theZero : \A k \in firstApply : z < k
            /\ Len(ap) = n
            /\ \A k \in 1..n :
                  /\ ap[k].input = BufferValue(k)
                  /\ ap[k].returned
                  /\ ap[k].current = IF k = 1 THEN zs[1].result ELSE ap[k - 1].result
            /\ result = IF n = 0 THEN zs[1].result ELSE ap[n].result
            /\ range.error = S_ReadPastEnd
            /\ (process = 0 /\ stepKind = "accumulateFloat") =>
                  /\ result.type_tag = TTAG_FLOAT
                  /\ FloatOf(result) = SumSeq(values)

C2_Witness ==
    /\ pc = "reduced"
    /\ process = 0
    /\ stepKind = "accumulateFloat"
    /\ Len(values) = MaxCount
    /\ \A k \in 1..Len(values) : values[k] > 0
    /\ FloatOf(result) = SumSeq(values)
    /\ Len(Applies(reducer)) = MaxCount

(* C3: the inputs on which the step of a filtering reducer is applied are  *)
(* exactly the inputs of the filtering reducer that satisfy the predicate, *)
(* in order, each once, with the accumulator passed through; for an input  *)
(* that fails the predicate the step is not applied and the current        *)
(* accumulator is returned.                                                *)
C3_Filtering ==
    \A f \in 1..Len(reducers) :
        reducers[f].kind = "filtering" =>
            LET fin == Applies(f)
                sin == Applies(reducers[f].step)
                Pass(e) == CallPredicate(St, reducers[f].predicate, e.input)
                passed == SelectSeq(fin, Pass)
            IN  /\ Len(sin) = Len(passed)
                /\ \A k \in 1..Len(sin) :
                      /\ sin[k].input = passed[k].input
                      /\ sin[k].current = passed[k].current
                      /\ sin[k].returned = passed[k].returned
                      /\ sin[k].result = passed[k].result
                /\ \A k \in 1..Len(fin) :
                      ~Pass(fin[k]) =>
                          /\ fin[k].returned
                          /\ fin[k].result = fin[k].current

C3_Witness ==
    /\ pc = "reduced"
    /\ transducers = <<filteringTransducer(positiveFloatsOnly)>>
    /\ Len(values) = 2
    /\ values[1] <= 0
    /\ values[2] > 0
    /\ Len(Applies(reducer)) = 2
    /\ Len(Applies(step)) = 1
    /\ Applies(step)[1].input = BufferValue(2)

(* C8: a mapping reducer starts with the zero of its inner reducer R; its  *)
(* k-th apply folds the input into the inner accumulator with R and then   *)
(* applies the step once, to the updated inner accumulator and the         *)
(* caller's accumulator, and returns the step's result: the step receives  *)
(* the prefix folds of the inputs.                                         *)
C8_Mapping ==
    \A m \in 1..Len(reducers) :
        reducers[m].kind = "mapping" =>
            LET min == Applies(m)
                sin == Applies(reducers[m].step)
                R == reducers[reducers[m].reducer].kind
                Fold(k) == IF R = "accumulateFloat"
                           THEN [type_tag |-> TTAG_FLOAT, val |-> SumInputs(min, k)]
                           ELSE View(min[k].input)
                Zero == IF R = "accumulateFloat"
                        THEN [type_tag |-> TTAG_FLOAT, val |-> 0]
                        ELSE View(nullValue)
            IN  /\ Len(sin) = Len(min)
                /\ \A k \in 1..Len(min) :
                      /\ View(sin[k].input) = Fold(k)
                      /\ sin[k].current = min[k].current
                      /\ sin[k].returned = min[k].returned
                      /\ sin[k].result = min[k].result
                /\ View(reducers[m].reducerResult) =
                      IF Len(min) = 0 THEN Zero ELSE Fold(Len(min))

C8_Witness ==
    /\ pc = "reduced"
    /\ transducers = <<mappingTransducer(accumulator)>>
    /\ values = <<1, 1>>
    /\ Len(Applies(step)) = 2
    /\ FloatOf(Applies(step)[1].input) = 1
    /\ FloatOf(Applies(step)[2].input) = 2
    /\ FloatOf(reducers[reducer].reducerResult) = 2

(* C5: the pipeline Compose[Filter(value > 0), Map(running sum)] over a    *)
(* step that returns its input, driven over an array with a positive       *)
(* element by reduceStream or by transduceFloatArray, ends with a Float    *)
(* accumulator equal to the sum of the positive elements.                  *)
FilterSumProcess ==
    <<filteringTransducer(positiveFloatsOnly), mappingTransducer(accumulator),
      composingTransducer(<<1, 2>>, 2)>>

SumPositive == SumSeq(SelectSeq(values, Positive))

C5_FilterAccumulate ==
    (/\ transducers = FilterSumProcess
     /\ stepKind \in {"id", "print"}
     /\ \E k \in 1..Len(values) : values[k] > 0) =>
        /\ pc \in {"reduced", "transduce", "done"} =>
              /\ result.type_tag = TTAG_FLOAT
              /\ FloatOf(result) = SumPositive
        /\ pc = "done" =>
              /\ result2.type_tag = TTAG_FLOAT
              /\ FloatOf(result2) = SumPositive

C5_Witness ==
    /\ pc = "done"
    /\ transducers = FilterSumProcess
    /\ stepKind = "print"
    /\ Len(values) = 2
    /\ values[1] < 0
    /\ values[2] > 0
    /\ FloatOf(result) = values[2]
    /\ FloatOf(result2) = values[2]

(* C9: a transducer applied a second time produces a reducer of its own:   *)
(* producing it and applying it leave the reducers made before, and the    *)
(* transducers, as they are, and the second reduction of the same array    *)
(* over a step that returns its input gives the result of the first.       *)
C9_IndependentInstances ==
    [][/\ pc \in {"reduced", "transduce"} =>
            /\ transducers' = transducers
            /\ \A r \in 1..Len(reducers) :
                  (pc = "reduced" \/ r < reducer2) => reducers'[r] = reducers[r]
       /\ (pc' = "done" /\ stepKind \in {"id", "print"}) =>
            View(result2)' = View(result)']_vars

C9_Witness ==
    /\ pc = "done"
    /\ transducers = FilterSumProcess
    /\ stepKind = "print"
    /\ values = <<1, 1>>
    /\ FloatOf(result) = 2
    /\ FloatOf(result2) = 2
    /\ reducer2 > reducer

(* C10: with the running-sum reducer as the terminal step of a reducer     *)
(* produced by a transducer, no assertion of accumulateFloat fails: its    *)
(* input and its current accumulator are Float-tagged at every call.       *)
C10_NoAssertionFails ==
    (stepKind = "accumulateFloat" /\ process # 0) =>
        /\ ~aborted
        /\ \A k \in 1..Len(log) :
              (log[k].reducer = step /\ log[k].op = "apply") =>
                  /\ log[k].input.type_tag = TTAG_FLOAT
                  /\ log[k].current.type_tag = TTAG_FLOAT

----------------------------------------------------------------------------
(* Composition against nesting: over two transducers A and B, the reducer  *)
(* of the composing transducer over [A, B] and the reducer A.apply(        *)
(* B.apply(step)), each over a terminal step of its own, are fed the same  *)
(* inputs and accumulators.                                                *)

Seeds == {nullValue, accumulateFloatZero(St, accumulator, heapAllocator).result}

InitCompose ==
    /\ InitCommon
    /\ values \in FloatArrays
    /\ range = NoRange
    /\ reducers = <<BaseReducer("accumulateFloat"), BaseReducer("id")>>
    /\ transducers \in {<<A, B, composingTransducer(<<1, 2>>, 2)>> :
                           A \in Leaves, B \in Leaves}
    /\ process = Len(transducers)
    /\ stepKind \in StepKinds
    /\ pc = "start"

UnchangedCompose ==
    UNCHANGED <<values, range, element, transducers, process, stepKind,
                frees, a, b, freedValue>>

ComposeBoth ==
    /\ pc = "start"
    /\ \E seed \in Seeds :
          /\ result' = seed
          /\ result2' = seed
    /\ LET s1 == TerminalReducer(St, stepKind)
           c == transducer_apply(s1.st, process, s1.result, heapAllocator)
           s2 == TerminalReducer(c.st, stepKind)
           nb == transducer_apply(s2.st, 2, s2.result, heapAllocator)
           na == transducer_apply(nb.st, 1, nb.result, heapAllocator)
       IN  /\ step' = s1.result
           /\ reducer' = c.result
           /\ step2' = s2.result
           /\ reducer2' = na.result
           /\ reducers' = na.st.reducers
           /\ mem' = na.st.mem
           /\ log' = na.st.log
    /\ i' = 0
    /\ pc' = "feed"
    /\ UNCHANGED <<aborted, aborted2>>
    /\ UnchangedCompose

FeedBoth ==
    /\ pc = "feed"
    /\ IF i < Len(values)
       THEN LET value == [type_tag |-> TTAG_FLOAT, element_size |-> SizeofFloat,
                          address |-> [region |-> "buf", off |-> i * SizeofFloat],
                          allocator |-> NoAllocator]
                apC == reducer_apply(St, reducer, value, result, heapAllocator)
                apD == reducer_apply([apC.st EXCEPT !.aborted = FALSE], reducer2,
                                     value, result, heapAllocator)
            IN  /\ result' = apC.result
                /\ result2' = apD.result
                /\ aborted' = apC.st.aborted
                /\ aborted2' = apD.st.aborted
                /\ reducers' = apD.st.reducers
                /\ mem' = apD.st.mem
                /\ log' = apD.st.log
                /\ i' = i + 1
                /\ pc' = IF apC.st.aborted \/ apD.st.aborted THEN "aborted" ELSE "feed"
       ELSE /\ pc' = "fed"
            /\ UNCHANGED <<result, result2, aborted, aborted2, reducers, mem, log, i>>
    /\ UNCHANGED <<step, reducer, step2, reducer2>>
    /\ UnchangedCompose

NextCompose == ComposeBoth \/ FeedBoth

SpecCompose == InitCompose /\ [][NextCompose]_vars

SameCalls(x, y) ==
    /\ Len(x) = Len(y)
    /\ \A k \in 1..Len(x) :
          /\ View(x[k].input) = View(y[k].input)
          /\ View(x[k].current) = View(y[k].current)
          /\ x[k].returned = y[k].returned
          /\ View(x[k].result) = View(y[k].result)

(* C4: the reducer of the composing transducer over [A, B] and             *)
(* A.apply(B.apply(step)) return the same accumulator after every apply    *)
(* and apply the step to the same arguments in the same order, A's reducer *)
(* being applied before B's for every element.                             *)
C4_ComposeIsNesting ==
    pc \in {"feed", "fed", "aborted"} =>
        LET chainA == reducers[reducer].reducers[1]
            chainB == reducers[reducer].reducers[2]
            nestedA == reducer2
            nestedB == reducers[reducer2].step
            IsApply(k, r) == log[k].reducer = r /\ log[k].op = "apply"
        IN  /\ View(result) = View(result2)
            /\ aborted = aborted2
            /\ SameCalls(Applies(reducer), Applies(nestedA))
            /\ SameCalls(Applies(chainA), Applies(nestedA))
            /\ SameCalls(Applies(chainB), Applies(nestedB))
            /\ SameCalls(Applies(step), Applies(step2))
            /\ reducers[chainA].kind = transducers[1].kind
            /\ reducers[chainB].kind = transducers[2].kind
            /\ \A k \in 1..Len(log) :
                  IsApply(k, chainB) =>
                      \E j \in 1..(k - 1) :
                          /\ IsApply(j, chainA)
                          /\ \A h \in (j + 1)..k : ~IsApply(h, reducer)
            /\ \A k \in 1..Len(log) :
                  IsApply(k, step) =>
                      \E j \in 1..(k - 1) :
                          /\ IsApply(j, chainB)
                          /\ \A h \in (j + 1)..k : ~IsApply(h, reducer)

C4_Witness ==
    /\ pc = "fed"
    /\ transducers = FilterSumProcess
    /\ stepKind = "print"
    /\ Len(values) = 2
    /\ values[1] < 0
    /\ values[2] > 0
    /\ Len(Applies(reducers[reducer].reducers[1])) = 2
    /\ Len(Applies(step)) = 1
    /\ Len(Applies(step2)) = 1
    /\ View(result2) = [type_tag |-> TTAG_FLOAT, val |-> values[2]]

====
